---- MODULE Spec2Model ----
(***************************************************************************)
(* Chunk registry and media delivery of discord-voice-webapp.              *)
(*                                                                         *)
(* Spec       : startup pass, background scanner thread, the chunk request *)
(*              handlers of logged-in owners (list, delete) and the        *)
(*              capture process writing / removing files beside them.      *)
(* SpecHttp   : the same with any session and any path (list, delete,      *)
(*              serve) over a tree of one chunk.                           *)
(* SpecLive   : the scanner under its scheduling.                          *)
(* SpecDirs   : the scanner over directories of any name.                  *)
(* SpecKeys   : the scanner over names that hold a colon.                  *)
(* SpecTwoDirs: listing and serving over two directories of one user.     *)
(* SpecRace   : register_chunk under two callers at once.                  *)
(* SpecStream : one range request streamed by iter_file.                   *)
(* SpecServe  : serve_chunk streamed beside delete_chunk.                  *)
(*                                                                         *)
(* Strings are sequences of one-character strings, so that rsplit,         *)
(* endswith, substring tests, key formatting and ORDER BY are computed on  *)
(* characters as the code computes them.                                   *)
(***************************************************************************)
EXTENDS Integers, Sequences, FiniteSets, TLC

VARIABLES
    layout,      \* enumeration order of the chunk paths the recordings tree may hold
    disk,        \* set of paths whose file exists now
    chunks,      \* table "chunks": sequence of rows, in insertion order
    phase,       \* "startup" | "failed" | "sleep" | "scan"
    cursor,      \* how many entries of the directory walk the running pass has visited
    delPc,       \* delete_chunk in api_delete_chunk: "idle" | "remove" | "commit"
    delReq,      \* the arguments and the row of the delete_chunk call in progress
    obs,         \* outcome of the step just taken (a response, a register_chunk call)
    deleted,     \* history: rows as committed by every successful delete_chunk
    cleanSince,  \* history: "none" | "start" | "pass", see BeginPass
    atStartup,   \* history: files on disk ever since startup began; {} from the first
                 \* background pass on
    file_size,   \* SpecStream: size of the file being served
    range_header,\* SpecStream: the Range header (None when the request has none)
    status,      \* SpecStream: response status, 0 before the response is built
    headers,     \* SpecStream: response headers
    iter_args,   \* SpecStream: the arguments of the iter_file call
    spc,         \* SpecStream: "handler" | "open" | "read" | "closed" (the generator
                 \* returned, or no response is being streamed) | "aborted" | "failed"
    remaining,   \* SpecStream: iter_file's remaining (None or Some(n))
    pos,         \* SpecStream: file position of f
    body,        \* SpecStream: the bytes yielded so far
    audio_file,  \* the file of the response being streamed (None when there is none)
    f,           \* the file object of iter_file: "none" | "open" | "closed"
    reg          \* SpecRace: the register_chunk call of each caller

regVars == <<layout, disk, chunks, phase, cursor, delPc, delReq, obs, deleted,
             cleanSince, atStartup>>
streamVars == <<file_size, range_header, status, headers, iter_args, spc, remaining,
                pos, body, audio_file, f>>
raceVars == <<reg>>
vars == <<regVars, streamVars, raceVars>>

\* Python's None / a value: the empty sequence / a one-element sequence.
None == <<>>
Some(x) == <<x>>

(***************************************************************************)
(* Characters and strings                                                  *)
(***************************************************************************)

\* The characters in use, in ASCII order (SQLite's BINARY collation and
\* Python's str comparison both compare code points).
Alphabet == <<".", "/", "0", "1", "2", ":", "_", "a", "c", "h", "k", "n", "u", "v", "w">>

Ord(c) == CHOOSE i \in 1..Len(Alphabet) : Alphabet[i] = c

RECURSIVE StrLess(_, _)
StrLess(s, t) ==
    IF t = <<>> THEN FALSE
    ELSE IF s = <<>> THEN TRUE
    ELSE IF Head(s) # Head(t) THEN Ord(Head(s)) < Ord(Head(t))
    ELSE StrLess(Tail(s), Tail(t))

\* sub in s
Contains(s, sub) ==
    \E i \in 0..(Len(s) - Len(sub)) : SubSeq(s, i + 1, i + Len(sub)) = sub

StartsWith(s, pre) == Len(s) >= Len(pre) /\ SubSeq(s, 1, Len(pre)) = pre

EndsWith(s, suf) ==
    Len(s) >= Len(suf) /\ SubSeq(s, Len(s) - Len(suf) + 1, Len(s)) = suf

\* s.rsplit("_", 1)
rsplit(s) ==
    IF \E i \in 1..Len(s) : s[i] = "_"
    THEN LET k == CHOOSE i \in 1..Len(s) :
                      s[i] = "_" /\ \A j \in (i + 1)..Len(s) : s[j] # "_"
         IN  <<SubSeq(s, 1, k - 1), SubSeq(s, k + 1, Len(s))>>
    ELSE <<s>>

\* fnmatch of "chunk_*.wav"
GlobChunk(name) ==
    /\ Len(name) >= 10
    /\ StartsWith(name, <<"c", "h", "u", "n", "k", "_">>)
    /\ EndsWith(name, <<".", "w", "a", "v">>)

\* f"{discord_id}:{date}:{filename}"
chunk_id(discord_id, date, filename) ==
    discord_id \o <<":">> \o date \o <<":">> \o filename

\* "/" in x or ".." in x
BadSegment(x) == Contains(x, <<"/">>) \/ Contains(x, <<".", ".">>)

(***************************************************************************)
(* The recordings tree                                                     *)
(***************************************************************************)

DirA1   == <<"a", "_", "1">>                 \* display name a, user 1
DirC12  == <<"c", "_", "1", ":", "2">>       \* display name c, user 1:2
User1   == <<"1">>
User12  == <<"1", ":", "2">>
Date01  == <<"0", "1">>
Date02  == <<"0", "2">>
Date201 == <<"2", ":", "0", "1">>
DateUp  == <<".", ".">>
Chunk1  == <<"c", "h", "u", "n", "k", "_", "1", ".", "w", "a", "v">>
Chunk2  == <<"c", "h", "u", "n", "k", "_", "2", ".", "w", "a", "v">>
NameUp  == <<".", ".", "/", "a">>

\* RECORDINGS_PATH / dir / "chunks" / date / name, kept as its components: no
\* component holds a "/", so the path string and the components determine each other.
Path(dir, date, name) == [dir |-> dir, date |-> date, name |-> name]

TreeLayout ==
    << Path(DirA1, Date01, Chunk2),
       Path(DirA1, Date01, Chunk1),
       Path(DirA1, Date02, Chunk1),
       Path(DirC12, Date01, Chunk1) >>

Range(s) == {s[i] : i \in 1..Len(s)}

\* os.path.exists(filepath)
Exists(d, filepath) == filepath \in d

(***************************************************************************)
(* Index store: table chunks                                               *)
(***************************************************************************)

\* db.get(Chunk, chunk_id): the rows with that primary key
Get(db, id) == SelectSeq(db, LAMBDA r : r.id = id)

Chunk(discord_id, date, filename, filepath) ==
    [ id         |-> chunk_id(discord_id, date, filename),
      discord_id |-> discord_id,
      date       |-> date,
      filename   |-> filename,
      filepath   |-> filepath,
      is_deleted |-> FALSE ]

\* A bug register_chunk could have: INSERT OR REPLACE, which writes a fresh row
\* over an existing one.
register_chunk_replace(db, discord_id, date, filename, filepath) ==
    LET id == chunk_id(discord_id, date, filename)
    IN  IF Get(db, id) = <<>>
        THEN Append(db, Chunk(discord_id, date, filename, filepath))
        ELSE [i \in 1..Len(db) |->
                 IF db[i].id = id
                 THEN Chunk(discord_id, date, filename, filepath)
                 ELSE db[i]]

\* A bug register_chunk could have: no look-up before the insert.
register_chunk_always(db, discord_id, date, filename, filepath) ==
    Append(db, Chunk(discord_id, date, filename, filepath))

\* register_chunk: the table after the call
register_chunk(db, discord_id, date, filename, filepath) ==
    IF Get(db, chunk_id(discord_id, date, filename)) = <<>>
    THEN Append(db, Chunk(discord_id, date, filename, filepath))
    ELSE db

\* ORDER BY date DESC, filename ASC
RowBefore(r1, r2) ==
    \/ StrLess(r2.date, r1.date)
    \/ r1.date = r2.date /\ StrLess(r1.filename, r2.filename)

RECURSIVE InsertSorted(_, _)
InsertSorted(r, s) ==
    IF s = <<>> THEN <<r>>
    ELSE IF RowBefore(r, Head(s)) THEN <<r>> \o s
    ELSE <<Head(s)>> \o InsertSorted(r, Tail(s))

RECURSIVE OrderBy(_)
OrderBy(rows) ==
    IF rows = <<>> THEN <<>> ELSE InsertSorted(Head(rows), OrderBy(Tail(rows)))

\* result.setdefault(date, []).append(filename); the dict is a sequence of
\* <<date, filenames>> in insertion order, as Python keeps it.
SetDefaultAppend(result, date, filename) ==
    IF \E i \in 1..Len(result) : result[i][1] = date
    THEN [i \in 1..Len(result) |->
             IF result[i][1] = date
             THEN <<date, Append(result[i][2], filename)>>
             ELSE result[i]]
    ELSE Append(result, <<date, <<filename>>>>)

RECURSIVE GroupRows(_, _, _)
GroupRows(rows, d, result) ==
    IF rows = <<>> THEN result
    ELSE GroupRows(Tail(rows), d,
                   IF Exists(d, Head(rows).filepath)
                   THEN SetDefaultAppend(result, Head(rows).date, Head(rows).filename)
                   ELSE result)

\* Bugs get_chunks_for_user could have: a missing filter, a missing ORDER BY,
\* a missing existence check.
get_chunks_no_owner_filter(db, d, discord_id) ==
    GroupRows(OrderBy(SelectSeq(db, LAMBDA r : ~r.is_deleted)), d, <<>>)

get_chunks_no_deleted_filter(db, d, discord_id) ==
    GroupRows(OrderBy(SelectSeq(db, LAMBDA r : r.discord_id = discord_id)), d, <<>>)

get_chunks_unordered(db, d, discord_id) ==
    GroupRows(SelectSeq(db, LAMBDA r : r.discord_id = discord_id /\ ~r.is_deleted),
              d, <<>>)

\* get_chunks_for_user on table db and disk d
get_chunks_for_user(db, d, discord_id) ==
    GroupRows(
        OrderBy(SelectSeq(db, LAMBDA r : r.discord_id = discord_id /\ ~r.is_deleted)),
        d, <<>>)

\* delete_chunk, lines 145-149: the row it will delete, or None
\* A bug it could have: no ownership check.
delete_chunk_lookup_any_owner(db, discord_id, date, filename) ==
    LET rows == Get(db, chunk_id(discord_id, date, filename))
    IN  IF rows = <<>> THEN None ELSE Some(rows[1])

delete_chunk_lookup(db, discord_id, date, filename) ==
    LET rows == Get(db, chunk_id(discord_id, date, filename))
    IN  IF rows = <<>> \/ rows[1].discord_id # discord_id
        THEN None
        ELSE Some(rows[1])

\* A bug delete_chunk could have: db.delete(row) instead of the flag.
MarkDeleted_hard(db, id) == SelectSeq(db, LAMBDA r : r.id # id)

\* row.is_deleted = True; db.commit()
MarkDeleted(db, id) ==
    [i \in 1..Len(db) |->
        IF db[i].id = id THEN [db[i] EXCEPT !.is_deleted = TRUE] ELSE db[i]]

(***************************************************************************)
(* Request inputs                                                          *)
(***************************************************************************)

Sessions == {None, Some(User1), Some(User12)}      \* request.session.get("user")
UserIds  == {User1, User12}

Target(user_id, date, filename) ==
    [user_id |-> user_id, date |-> date, filename |-> filename]

\* The chunks a client has seen listed: one per path of the tree
ChunkTargets ==
    {Target(rsplit(p.dir)[2], p.date, p.name) : p \in Range(TreeLayout)}

\* ... and the paths a client can make up: a date holding the key's delimiter,
\* a parent-directory reference, a separator
HttpTargets ==
    ChunkTargets \cup { Target(User1, Date201, Chunk1),
                        Target(User1, DateUp, Chunk1),
                        Target(User1, Date01, NameUp) }

\* The checks every chunk handler starts with, in the order of the code:
\* 0 when the request passes, else the status of the HTTPException raised.
\* A bug they could have: the path validated before the identity.
AuthorizePathFirst(session, user_id, segments) ==
    IF \E i \in 1..Len(segments) : BadSegment(segments[i]) THEN 400
    ELSE IF session = None THEN 401
    ELSE IF session[1] # user_id THEN 403
    ELSE 0

Authorize(session, user_id, segments) ==
    IF session = None THEN 401
    ELSE IF session[1] # user_id THEN 403
    ELSE IF \E i \in 1..Len(segments) : BadSegment(segments[i]) THEN 400
    ELSE 0

NoObs == [op |-> "none"]

\* No delete_chunk call in progress
NoReq == [session |-> None]

\* The callers of register_chunk that can run at the same time, and none of
\* them in a call
Callers == {1, 2}
NoCall == [pc |-> "idle"]
NoCalls == [w \in Callers |-> NoCall]

Response(op, session, user_id, date, filename, code, looked, result) ==
    [ op       |-> op,
      session  |-> session,
      user_id  |-> user_id,
      date     |-> date,
      filename |-> filename,
      status   |-> code,
      looked   |-> looked,      \* history: the handler went on to the index or the disk
      result   |-> result ]

(***************************************************************************)
(* Scanner: startup pass and background thread                             *)
(***************************************************************************)

\* The body of the directory walk for one entry of the tree: the table after it.
VisitEntry(db, d, p) ==
    LET parts == rsplit(p.dir)
    IN  IF p \in d /\ Len(parts) = 2 /\ GlobChunk(p.name)
        THEN register_chunk(db, parts[2], p.date, p.name, p)
        ELSE db

\* The walk calls register_chunk for p
IsCandidate(d, p) == p \in d /\ Len(rsplit(p.dir)) = 2 /\ GlobChunk(p.name)

Visit ==
    LET p == layout[cursor + 1]
    IN  /\ cursor < Len(layout)
        /\ cursor' = cursor + 1
        /\ chunks' = VisitEntry(chunks, disk, p)
        /\ obs' = IF IsCandidate(disk, p)
                  THEN [op |-> "register_chunk", path |-> p,
                        inserted |-> chunks' # chunks]
                  ELSE NoObs

PassComplete == IF cleanSince = "start" THEN "pass" ELSE cleanSince
PassAborted  == IF cleanSince = "start" THEN "none" ELSE cleanSince

\* startup(): one more file of the synchronous pass
StartupVisit ==
    /\ phase = "startup"
    /\ Visit
    /\ UNCHANGED <<layout, disk, phase, delPc, delReq, deleted, cleanSince, atStartup>>
    /\ UNCHANGED <<streamVars, raceVars>>

\* startup(): an exception in the pass is not caught, the application does not start
StartupFail ==
    /\ phase = "startup"
    /\ phase' = "failed"
    /\ obs' = NoObs
    /\ cleanSince' = PassAborted
    /\ atStartup' = {}
    /\ UNCHANGED <<layout, disk, chunks, cursor, delPc, delReq, deleted>>
    /\ UNCHANGED <<streamVars, raceVars>>

\* A bug startup could have: the thread started before the pass.
StartupDoneEarly ==
    /\ phase = "startup"
    /\ phase' = "sleep"
    /\ obs' = NoObs
    /\ cleanSince' = PassAborted
    /\ UNCHANGED <<layout, disk, chunks, cursor, delPc, delReq, deleted, atStartup>>
    /\ UNCHANGED <<streamVars, raceVars>>

\* startup(): the pass is over, the thread is started, requests are served
StartupDone ==
    /\ phase = "startup"
    /\ cursor = Len(layout)
    /\ phase' = "sleep"
    /\ obs' = NoObs
    /\ cleanSince' = PassComplete
    /\ UNCHANGED <<layout, disk, chunks, cursor, delPc, delReq, deleted, atStartup>>
    /\ UNCHANGED <<streamVars, raceVars>>

\* The process is stopped (a crash or a redeploy, at any point of a pass or of
\* delete_chunk) and started again: startup() runs on the index and the tree
\* as they are.
Restart ==
    /\ phase \in {"sleep", "scan", "failed"}
    /\ phase' = "startup"
    /\ cursor' = 0
    /\ delPc' = "idle"
    /\ delReq' = NoReq
    /\ obs' = NoObs
    /\ cleanSince' = "start"
    /\ atStartup' = disk
    /\ UNCHANGED <<layout, disk, chunks, deleted>>
    /\ UNCHANGED <<streamVars, raceVars>>

\* A bug the loop could have: a pass goes on where the last one stopped.
BeginPass_resume ==
    /\ phase = "sleep"
    /\ phase' = "scan"
    /\ obs' = NoObs
    /\ cleanSince' = IF cleanSince = "none" THEN "start" ELSE cleanSince
    /\ atStartup' = {}
    /\ UNCHANGED <<layout, disk, chunks, cursor, delPc, delReq, deleted>>
    /\ UNCHANGED <<streamVars, raceVars>>

\* _scan_and_register_all_chunks: time.sleep returns, a pass begins
\* (cleanSince: "start" when the tree has not changed since this pass began,
\*  "pass" when a whole pass has run over the tree as it is now)
BeginPass ==
    /\ phase = "sleep"
    /\ phase' = "scan"
    /\ cursor' = 0
    /\ obs' = NoObs
    /\ cleanSince' = IF cleanSince = "none" THEN "start" ELSE cleanSince
    /\ atStartup' = {}
    /\ UNCHANGED <<layout, disk, chunks, delPc, delReq, deleted>>
    /\ UNCHANGED <<streamVars, raceVars>>

ScanVisit ==
    /\ phase = "scan"
    /\ Visit
    /\ UNCHANGED <<layout, disk, phase, delPc, delReq, deleted, cleanSince, atStartup>>
    /\ UNCHANGED <<streamVars, raceVars>>

ScanDone ==
    /\ phase = "scan"
    /\ cursor = Len(layout)
    /\ phase' = "sleep"
    /\ obs' = NoObs
    /\ cleanSince' = PassComplete
    /\ UNCHANGED <<layout, disk, chunks, cursor, delPc, delReq, deleted, atStartup>>
    /\ UNCHANGED <<streamVars, raceVars>>

\* except Exception: the pass is given up, the loop goes on
ScanError ==
    /\ phase = "scan"
    /\ cursor < Len(layout)
    /\ phase' = "sleep"
    /\ obs' = NoObs
    /\ cleanSince' = PassAborted
    /\ UNCHANGED <<layout, disk, chunks, cursor, delPc, delReq, deleted, atStartup>>
    /\ UNCHANGED <<streamVars, raceVars>>

(***************************************************************************)
(* The capture process and other writers of the tree                       *)
(***************************************************************************)

CaptureWrite(p) ==
    /\ p \notin disk
    /\ disk' = disk \cup {p}
    /\ obs' = NoObs
    /\ cleanSince' = "none"
    /\ UNCHANGED <<layout, chunks, phase, cursor, delPc, delReq, deleted, atStartup>>
    /\ UNCHANGED <<streamVars, raceVars>>

ExternalRemove(p) ==
    /\ p \in disk
    /\ disk' = disk \ {p}
    /\ obs' = NoObs
    /\ cleanSince' = "none"
    /\ atStartup' = atStartup \ {p}
    /\ UNCHANGED <<layout, chunks, phase, cursor, delPc, delReq, deleted>>
    /\ UNCHANGED <<streamVars, raceVars>>

(***************************************************************************)
(* Request handlers.  They are async functions that never await: the event *)
(* loop runs one at a time, beside the scanner thread and the capture      *)
(* process.                                                                *)
(***************************************************************************)

Serving == phase \in {"sleep", "scan"} /\ delPc = "idle"

\* GET /api/chunks/{user_id}
ApiChunks(session, user_id) ==
    LET code == Authorize(session, user_id, <<>>)
    IN  /\ Serving
        /\ obs' = IF code # 0
                  THEN Response("api_chunks", session, user_id, <<>>, <<>>,
                                code, FALSE, <<>>)
                  ELSE Response("api_chunks", session, user_id, <<>>, <<>>,
                                200, TRUE, get_chunks_for_user(chunks, disk, user_id))
        /\ UNCHANGED <<layout, disk, chunks, phase, cursor, delPc, delReq, deleted,
                       cleanSince, atStartup>>
        /\ UNCHANGED <<streamVars, raceVars>>

\* DELETE /api/chunks/{user_id}/{date}/{filename}, up to the row look-up of delete_chunk
ApiDeleteChunk(session, user_id, date, filename) ==
    LET code == Authorize(session, user_id, <<date, filename>>)
        row  == delete_chunk_lookup(chunks, user_id, date, filename)
    IN  /\ Serving
        /\ IF code # 0
           THEN /\ obs' = Response("api_delete_chunk", session, user_id, date, filename,
                                   code, FALSE, None)
                /\ UNCHANGED <<delPc, delReq>>
           ELSE IF row = None
           THEN /\ obs' = Response("api_delete_chunk", session, user_id, date, filename,
                                   404, TRUE, None)
                /\ UNCHANGED <<delPc, delReq>>
           ELSE /\ delPc' = "remove"
                /\ delReq' = [session |-> session, user_id |-> user_id, date |-> date,
                              filename |-> filename, row |-> row[1]]
                /\ obs' = NoObs
        /\ UNCHANGED <<layout, disk, chunks, phase, cursor, deleted, cleanSince, atStartup>>
        /\ UNCHANGED <<streamVars, raceVars>>

\* A bug delete_chunk could have: no except around os.remove, the OSError
\* goes to the caller and the flag is not set.
DelRemove_raises ==
    /\ delPc = "remove"
    /\ obs' = NoObs
    /\ \/ /\ Exists(disk, delReq.row.filepath)
          /\ disk' = disk \ {delReq.row.filepath}
          /\ cleanSince' = "none"
          /\ delPc' = "commit"
          /\ UNCHANGED delReq
       \/ /\ Exists(disk, delReq.row.filepath)
          /\ delPc' = "idle"
          /\ delReq' = NoReq
          /\ UNCHANGED <<disk, cleanSince>>
       \/ /\ ~Exists(disk, delReq.row.filepath)
          /\ delPc' = "commit"
          /\ UNCHANGED <<disk, cleanSince, delReq>>
    /\ UNCHANGED <<layout, chunks, phase, cursor, deleted, atStartup>>
    /\ UNCHANGED <<streamVars, raceVars>>

\* delete_chunk, lines 152-156: os.remove succeeds, raises OSError (caught),
\* or is not called
DelRemove ==
    /\ delPc = "remove"
    /\ obs' = NoObs
    /\ delPc' = "commit"
    /\ \/ /\ Exists(disk, delReq.row.filepath)
          /\ disk' = disk \ {delReq.row.filepath}
          /\ cleanSince' = "none"
       \/ /\ Exists(disk, delReq.row.filepath)
          /\ UNCHANGED <<disk, cleanSince>>
       \/ /\ ~Exists(disk, delReq.row.filepath)
          /\ UNCHANGED <<disk, cleanSince>>
    /\ UNCHANGED <<layout, chunks, phase, cursor, delReq, deleted, atStartup>>
    /\ UNCHANGED <<streamVars, raceVars>>

\* delete_chunk, lines 158-160, and the 200 of api_delete_chunk
DelCommit ==
    /\ delPc = "commit"
    /\ chunks' = MarkDeleted(chunks, delReq.row.id)
    /\ delPc' = "idle"
    /\ delReq' = NoReq
    /\ deleted' = deleted \cup {r \in Range(chunks') : r.id = delReq.row.id}
    /\ obs' = Response("api_delete_chunk", delReq.session, delReq.user_id, delReq.date,
                       delReq.filename, 200, TRUE, Some(delReq.row.filepath))
    /\ UNCHANGED <<layout, disk, phase, cursor, cleanSince, atStartup>>
    /\ UNCHANGED <<streamVars, raceVars>>

\* serve_chunk, lines 275-282: the file the request resolves to, or None
FindChunkFile(lay, d, user_id, date, filename) ==
    LET hits == {i \in 1..Len(lay) : EndsWith(lay[i].dir, <<"_">> \o user_id)}
    IN  IF hits = {} THEN None
        ELSE LET first     == CHOOSE i \in hits : \A j \in hits : i <= j
                 candidate == Path(lay[first].dir, date, filename)
             IN  IF Exists(d, candidate) THEN Some(candidate) ELSE None

\* GET /audio/{user_id}/chunks/{date}/{filename}, up to the choice of the response
ServeChunk(session, user_id, date, filename, ranged) ==
    LET code       == Authorize(session, user_id, <<date, filename>>)
        found      == FindChunkFile(layout, disk, user_id, date, filename)
    IN  /\ Serving
        /\ obs' = IF code # 0
                  THEN Response("serve_chunk", session, user_id, date, filename,
                                code, FALSE, None)
                  ELSE IF found = None
                  THEN Response("serve_chunk", session, user_id, date, filename,
                                404, TRUE, None)
                  ELSE Response("serve_chunk", session, user_id, date, filename,
                                IF ranged THEN 206 ELSE 200, TRUE, found)
        /\ UNCHANGED <<layout, disk, chunks, phase, cursor, delPc, delReq, deleted,
                       cleanSince, atStartup>>
        /\ UNCHANGED <<streamVars, raceVars>>

(***************************************************************************)
(* Specifications                                                          *)
(***************************************************************************)

StreamIdle ==
    /\ file_size = 0
    /\ range_header = None
    /\ status = 0
    /\ headers = None
    /\ iter_args = None
    /\ spc = "closed"
    /\ remaining = None
    /\ pos = 0
    /\ body = <<>>
    /\ audio_file = None
    /\ f = "none"

\* How many of the tree's paths the capture process writes to in one run
MaxFiles == 2

RECURSIVE SubLayouts(_, _)
SubLayouts(lay, n) ==
    IF n = 0 THEN {<<>>}
    ELSE IF Len(lay) < n THEN {}
    ELSE {<<Head(lay)>> \o t : t \in SubLayouts(Tail(lay), n - 1)}
         \cup SubLayouts(Tail(lay), n)

\* The process starts on an empty index (init_db creates the tables) beside a
\* tree the capture process may already have written to.
InitRegistry(layouts) ==
    /\ layout \in layouts
    /\ disk \in SUBSET Range(layout)
    /\ chunks = <<>>
    /\ phase = "startup"
    /\ cursor = 0
    /\ delPc = "idle"
    /\ delReq = NoReq
    /\ obs = NoObs
    /\ deleted = {}
    /\ cleanSince = "start"
    /\ atStartup = disk
    /\ StreamIdle
    /\ reg = NoCalls

Init == InitRegistry(SubLayouts(TreeLayout, IF MaxFiles < Len(TreeLayout)
                                            THEN MaxFiles ELSE Len(TreeLayout)))

Scanner ==
    \/ StartupVisit
    \/ StartupFail
    \/ StartupDone
    \/ Restart
    \/ BeginPass
    \/ ScanVisit
    \/ ScanDone
    \/ ScanError

Writers ==
    \/ \E p \in Range(layout) : CaptureWrite(p)
    \/ \E p \in Range(layout) : ExternalRemove(p)

\* Spec: every client is logged in and asks for its own chunks
Next ==
    \/ Scanner
    \/ Writers
    \/ \E u \in UserIds : ApiChunks(Some(u), u)
    \/ \E t \in ChunkTargets :
           ApiDeleteChunk(Some(t.user_id), t.user_id, t.date, t.filename)
    \/ DelRemove
    \/ DelCommit

Spec == Init /\ [][Next]_vars

\* SpecHttp: any session, any path, over a tree of one chunk
InitHttp == InitRegistry({<<p>> : p \in Range(TreeLayout)})

NextHttp ==
    \/ Scanner
    \/ Writers
    \/ \E s \in Sessions, u \in UserIds : ApiChunks(s, u)
    \/ \E s \in Sessions, t \in HttpTargets :
           ApiDeleteChunk(s, t.user_id, t.date, t.filename)
    \/ DelRemove
    \/ DelCommit
    \/ \E s \in Sessions, t \in HttpTargets, ranged \in BOOLEAN :
           ServeChunk(s, t.user_id, t.date, t.filename, ranged)

SpecHttp == InitHttp /\ [][NextHttp]_vars

(***************************************************************************)
(* The scanner under its scheduling (SpecLive): the process stays up, the  *)
(* startup pass and the thread's loop keep taking their steps; whether a   *)
(* pass raises is up to the file system and the database.                  *)
(***************************************************************************)

NextLive ==
    \/ StartupVisit
    \/ StartupDone
    \/ BeginPass
    \/ ScanVisit
    \/ ScanDone
    \/ ScanError
    \/ Writers

Scheduling ==
    /\ WF_vars(StartupVisit)
    /\ WF_vars(StartupDone)
    /\ WF_vars(BeginPass)
    /\ WF_vars(ScanVisit)
    /\ WF_vars(ScanDone)

SpecLive == Init /\ [][NextLive]_vars /\ Scheduling

(***************************************************************************)
(* The scanner over directories of any name (SpecDirs)                     *)
(***************************************************************************)

DirN      == <<"n">>                \* no underscore
DirNoName == <<"_", "1">>           \* starts with its only underscore
DirNoUser == <<"a", "_">>           \* ends with an underscore

DirsLayout ==
    << Path(DirN, Date01, Chunk1),
       Path(DirNoName, Date01, Chunk1),
       Path(DirNoUser, Date01, Chunk1),
       Path(DirA1, Date01, Chunk1) >>

InitDirs == InitRegistry(SubLayouts(DirsLayout, IF MaxFiles < Len(DirsLayout)
                                                THEN MaxFiles ELSE Len(DirsLayout)))

NextDirs ==
    \/ Scanner
    \/ Writers

SpecDirs == InitDirs /\ [][NextDirs]_vars

(***************************************************************************)
(* The scanner over names that hold a colon (SpecKeys)                     *)
(***************************************************************************)

\* a_1/chunks/2:01/chunk_1.wav and c_1:2/chunks/01/chunk_1.wav: user 1 with
\* date 2:01, user 1:2 with date 01
KeysLayout ==
    << Path(DirA1, Date201, Chunk1),
       Path(DirC12, Date01, Chunk1),
       Path(DirA1, Date01, Chunk1) >>

InitKeys == InitRegistry(SubLayouts(KeysLayout, IF MaxFiles < Len(KeysLayout)
                                                THEN MaxFiles ELSE Len(KeysLayout)))

NextKeys ==
    \/ Scanner
    \/ Writers

SpecKeys == InitKeys /\ [][NextKeys]_vars

(***************************************************************************)
(* Listing and serving over two directories of one user (SpecTwoDirs)      *)
(***************************************************************************)

DirC1 == <<"c", "_", "1">>          \* display name c, user 1

\* a_1 and c_1 both belong to user 1; the order is the order iterdir gives
TwoDirsLayout ==
    << Path(DirA1, Date01, Chunk1),
       Path(DirC1, Date01, Chunk2),
       Path(DirC1, Date02, Chunk1) >>

TwoDirsTargets == {Target(User1, p.date, p.name) : p \in Range(TwoDirsLayout)}

InitTwoDirs == InitRegistry(SubLayouts(TwoDirsLayout, IF MaxFiles < Len(TwoDirsLayout)
                                                      THEN MaxFiles ELSE Len(TwoDirsLayout)))

NextTwoDirs ==
    \/ Scanner
    \/ Writers
    \/ ApiChunks(Some(User1), User1)
    \/ \E t \in TwoDirsTargets, ranged \in BOOLEAN :
           ServeChunk(Some(t.user_id), t.user_id, t.date, t.filename, ranged)

SpecTwoDirs == InitTwoDirs /\ [][NextTwoDirs]_vars

(***************************************************************************)
(* register_chunk under several callers at once (SpecRace): a call is the  *)
(* read of the key, then the insert and the commit, and another caller's   *)
(* call can fall between the two.                                          *)
(***************************************************************************)

\* register_chunk, lines 107-109: the key is read
RegGet(w, p) ==
    LET id == chunk_id(rsplit(p.dir)[2], p.date, p.name)
    IN  /\ reg[w].pc = "idle"
        /\ IsCandidate(disk, p)
        /\ reg' = [reg EXCEPT ![w] =
                      [pc   |-> IF Get(chunks, id) = <<>> THEN "add" ELSE "done",
                       path |-> p,
                       id   |-> id]]
        /\ obs' = NoObs
        /\ UNCHANGED <<layout, disk, chunks, phase, cursor, delPc, delReq, deleted,
                       cleanSince, atStartup>>
        /\ UNCHANGED streamVars

\* register_chunk, lines 110-117: db.add and db.commit. The INSERT of a key
\* the table holds by now violates the primary key: commit raises
\* IntegrityError and the table stays as it is.
RegCommit(w) ==
    /\ reg[w].pc = "add"
    /\ IF Get(chunks, reg[w].id) = <<>>
       THEN /\ chunks' = Append(chunks, Chunk(rsplit(reg[w].path.dir)[2], reg[w].path.date,
                                              reg[w].path.name, reg[w].path))
            /\ reg' = [reg EXCEPT ![w].pc = "done"]
       ELSE /\ reg' = [reg EXCEPT ![w].pc = "error"]
            /\ UNCHANGED chunks
    /\ obs' = NoObs
    /\ UNCHANGED <<layout, disk, phase, cursor, delPc, delReq, deleted, cleanSince,
                   atStartup>>
    /\ UNCHANGED streamVars

\* The call is over: it returned, or its exception went to the caller
RegReturn(w) ==
    /\ reg[w].pc \in {"done", "error"}
    /\ reg' = [reg EXCEPT ![w] = NoCall]
    /\ obs' = NoObs
    /\ UNCHANGED <<layout, disk, chunks, phase, cursor, delPc, delReq, deleted,
                   cleanSince, atStartup>>
    /\ UNCHANGED streamVars

NextRace ==
    \/ \E w \in Callers, p \in Range(layout) : RegGet(w, p)
    \/ \E w \in Callers : RegCommit(w)
    \/ \E w \in Callers : RegReturn(w)
    \/ Writers

SpecRace == Init /\ [][NextRace]_vars

(***************************************************************************)
(* Range-request streaming: serve_chunk from file_size on (serve_audio     *)
(* holds the same code)                                                    *)
(***************************************************************************)

Digits == <<"0", "1", "2", "3", "4", "5", "6", "7", "8", "9">>

IsDigit(c) == \E i \in 1..10 : Digits[i] = c

DigitValue(c) == (CHOOSE i \in 1..10 : Digits[i] = c) - 1

\* str(n), n >= 0
RECURSIVE Str(_)
Str(n) == IF n < 10 THEN <<Digits[n + 1]>> ELSE Str(n \div 10) \o <<Digits[(n % 10) + 1]>>

\* int(s) raises ValueError unless s is a run of digits (signs and blanks are
\* not among the inputs)
IsInt(s) == s # <<>> /\ \A i \in 1..Len(s) : IsDigit(s[i])

RECURSIVE Int_(_, _)
Int_(s, acc) == IF s = <<>> THEN acc ELSE Int_(Tail(s), 10 * acc + DigitValue(Head(s)))

int(s) == Int_(s, 0)

\* s.replace(old, "")
RECURSIVE Remove(_, _)
Remove(s, old) ==
    IF s = <<>> THEN <<>>
    ELSE IF StartsWith(s, old) THEN Remove(SubSeq(s, Len(old) + 1, Len(s)), old)
    ELSE <<Head(s)>> \o Remove(Tail(s), old)

\* s.split("-")
RECURSIVE Split(_, _)
Split(s, cur) ==
    IF s = <<>> THEN <<cur>>
    ELSE IF Head(s) = "-" THEN <<cur>> \o Split(Tail(s), <<>>)
    ELSE Split(Tail(s), Append(cur, Head(s)))

BytesEq == <<"b", "y", "t", "e", "s", "=">>

\* The text of a Range header: bytes=<start>-<end>, either number left out
\* when None
RangeHeader(start, end) ==
    BytesEq \o (IF start = None THEN <<>> ELSE Str(start[1])) \o <<"-">>
            \o (IF end = None THEN <<>> ELSE Str(end[1]))

\* Largest file size and largest offset a request names
MaxSize == 3

Offsets == {None} \cup {Some(n) : n \in 0..MaxSize}

RangeHeaders == {None} \cup {Some(RangeHeader(a, b)) : a \in Offsets, b \in Offsets}

chunk_size == 1024 * 256

Min(a, b) == IF a < b THEN a ELSE b

\* Python's truth value of an optional integer
Truthy(x) == x # None /\ x[1] # 0

\* lines 289-325 of serve_chunk: the response is chosen, the generator made
StreamHandler ==
    /\ spc = "handler"
    /\ IF range_header = None
       THEN /\ status' = 200
            /\ headers' = Some([accept_ranges |-> "bytes", content_length |-> file_size])
            /\ iter_args' = Some([start |-> 0, end |-> None])
            /\ spc' = "open"
       ELSE LET range_val == Remove(range_header[1], BytesEq)
                parts     == Split(range_val, <<>>)
            IN  IF \/ Len(parts) # 2
                   \/ ~IsInt(parts[1])
                   \/ parts[2] # <<>> /\ ~IsInt(parts[2])
                THEN \* ValueError, not caught: 500
                     /\ status' = 500
                     /\ headers' = None
                     /\ iter_args' = None
                     /\ spc' = "closed"
                ELSE LET start == int(parts[1])
                         end   == IF parts[2] # <<>> THEN int(parts[2]) ELSE file_size - 1
                     IN  /\ status' = 206
                         /\ headers' = Some([accept_ranges  |-> "bytes",
                                             content_range  |-> <<start, end, file_size>>,
                                             content_length |-> end - start + 1])
                         /\ iter_args' = Some([start |-> start, end |-> Some(end)])
                         /\ spc' = "open"
    /\ UNCHANGED <<file_size, range_header, remaining, pos, body, audio_file, f>>
    /\ UNCHANGED <<regVars, raceVars>>

\* iter_file up to the loop, run when the response, its status and headers
\* sent, asks the generator for the first piece of the body: open, seek,
\* remaining. open raises FileNotFoundError when the file is no longer there.
StreamOpen ==
    /\ spc = "open"
    /\ IF Exists(disk, audio_file[1])
       THEN /\ f' = "open"
            /\ pos' = iter_args[1].start
            /\ remaining' = IF Truthy(iter_args[1].end)
                            THEN Some(iter_args[1].end[1] - iter_args[1].start + 1)
                            ELSE None
            /\ spc' = "read"
       ELSE /\ spc' = "failed"
            /\ UNCHANGED <<f, pos, remaining>>
    /\ UNCHANGED <<file_size, range_header, status, headers, iter_args, body, audio_file>>
    /\ UNCHANGED <<regVars, raceVars>>

\* What f.read(to_read) can return at most: to_read bytes, all that is left
\* for a negative to_read, never more than the file holds
ReadMost(to_read) ==
    LET left == IF file_size > pos THEN file_size - pos ELSE 0
    IN  IF to_read < 0 THEN left ELSE Min(to_read, left)

\* One turn of the loop of iter_file; the byte at offset i is written i. A
\* read may return fewer bytes than asked for (n), and returns none only at
\* the end of the file.
StreamRead(n) ==
    LET to_read == IF Truthy(remaining) THEN Min(chunk_size, remaining[1]) ELSE chunk_size
        most    == ReadMost(to_read)
    IN  /\ spc = "read"
        /\ IF most = 0
           THEN /\ n = 0
                /\ spc' = "closed"
                /\ UNCHANGED <<remaining, pos, body>>
           ELSE /\ n \in 1..most
                /\ remaining' = IF Truthy(remaining) THEN Some(remaining[1] - n)
                                ELSE remaining
                /\ pos' = pos + n
                /\ body' = body \o [i \in 1..n |-> pos + i - 1]
                /\ spc' = IF remaining' # None /\ remaining'[1] <= 0
                          THEN "closed" ELSE "read"
        \* leaving the loop leaves the with block, which closes f
        /\ f' = IF spc' = "closed" THEN "closed" ELSE f
        /\ UNCHANGED <<file_size, range_header, status, headers, iter_args, audio_file>>
        /\ UNCHANGED <<regVars, raceVars>>

\* f.read raises (an I/O error): the exception leaves the with block, which
\* closes f, and ends the generator
StreamReadError ==
    /\ spc = "read"
    /\ spc' = "failed"
    /\ f' = "closed"
    /\ UNCHANGED <<file_size, range_header, status, headers, iter_args, remaining, pos,
                   body, audio_file>>
    /\ UNCHANGED <<regVars, raceVars>>

\* A bug iter_file could have: open without with, so that closing the
\* generator leaves f open.
StreamAbort_leak ==
    /\ spc \in {"open", "read"}
    /\ spc' = "aborted"
    /\ UNCHANGED <<file_size, range_header, status, headers, iter_args, remaining, pos,
                   body, audio_file, f>>
    /\ UNCHANGED <<regVars, raceVars>>

\* The client goes away and the generator is closed: GeneratorExit is raised
\* at the yield and leaves the with block, which closes f; a generator that
\* has not started yet has opened nothing.
StreamAbort ==
    /\ spc \in {"open", "read"}
    /\ spc' = "aborted"
    /\ f' = IF f = "open" THEN "closed" ELSE f
    /\ UNCHANGED <<file_size, range_header, status, headers, iter_args, remaining, pos,
                   body, audio_file>>
    /\ UNCHANGED <<regVars, raceVars>>

InitStream ==
    /\ layout = <<TreeLayout[1]>>
    /\ disk = {TreeLayout[1]}
    /\ chunks = <<>>
    /\ phase = "sleep"
    /\ cursor = 0
    /\ delPc = "idle"
    /\ delReq = NoReq
    /\ obs = NoObs
    /\ deleted = {}
    /\ cleanSince = "none"
    /\ atStartup = {}
    /\ file_size \in 0..MaxSize
    /\ range_header \in RangeHeaders
    /\ status = 0
    /\ headers = None
    /\ iter_args = None
    /\ spc = "handler"
    /\ remaining = None
    /\ pos = 0
    /\ body = <<>>
    /\ audio_file = Some(TreeLayout[1])
    /\ f = "none"
    /\ reg = NoCalls

NextStream ==
    \/ StreamHandler
    \/ StreamOpen
    \/ \E n \in 0..MaxSize : StreamRead(n)
    \/ StreamReadError
    \/ StreamAbort

SpecStream == InitStream /\ [][NextStream]_vars

(***************************************************************************)
(* serve_chunk with its response streamed beside delete_chunk (SpecServe): *)
(* the handler runs on the event loop from the session check to the return *)
(* of the StreamingResponse; the generator runs afterwards, piece by       *)
(* piece, and other handlers run between its pieces. Files hold MaxSize    *)
(* bytes, and only delete_chunk removes files.                             *)
(***************************************************************************)

\* The Range headers of SpecServe: none, and bytes=0-
ServeRanges == {None, Some(RangeHeader(Some(0), None))}

\* serve_chunk, lines 267-290: rejections, NotFound, or the size of the file
\* found and the Range header, from which StreamHandler goes on
ServeChunkBegin(session, user_id, date, filename, rh) ==
    LET code  == Authorize(session, user_id, <<date, filename>>)
        found == FindChunkFile(layout, disk, user_id, date, filename)
    IN  /\ Serving
        /\ spc \in {"closed", "aborted", "failed"}
        /\ IF code # 0 \/ found = None
           THEN /\ obs' = Response("serve_chunk", session, user_id, date, filename,
                                   IF code # 0 THEN code ELSE 404, code = 0, None)
                /\ UNCHANGED streamVars
           ELSE /\ obs' = NoObs
                /\ audio_file' = found
                /\ file_size' = MaxSize
                /\ range_header' = rh
                /\ status' = 0
                /\ headers' = None
                /\ iter_args' = None
                /\ spc' = "handler"
                /\ remaining' = None
                /\ pos' = 0
                /\ body' = <<>>
                /\ f' = "none"
        /\ UNCHANGED <<layout, disk, chunks, phase, cursor, delPc, delReq, deleted,
                       cleanSince, atStartup>>
        /\ UNCHANGED raceVars

NextServe ==
    \/ Scanner
    \/ \E p \in Range(layout) : CaptureWrite(p)
    \/ \E t \in ChunkTargets :
           /\ spc # "handler"
           /\ ApiDeleteChunk(Some(t.user_id), t.user_id, t.date, t.filename)
    \/ DelRemove
    \/ DelCommit
    \/ \E t \in ChunkTargets, rh \in ServeRanges :
           ServeChunkBegin(Some(t.user_id), t.user_id, t.date, t.filename, rh)
    \/ StreamHandler
    \/ StreamOpen
    \/ \E n \in 0..MaxSize : StreamRead(n)

SpecServe == InitHttp /\ [][NextServe]_vars

(***************************************************************************)
(* Properties                                                              *)
(***************************************************************************)

HandlerOps == {"api_chunks", "api_delete_chunk", "serve_chunk"}

\* The (date, filename) pairs of a chunks_per_date dict
Pairs(result) ==
    UNION {{<<result[i][1], result[i][2][j]>> : j \in 1..Len(result[i][2])} :
           i \in 1..Len(result)}

RECURSIVE CountPairs(_)
CountPairs(result) ==
    IF result = <<>> THEN 0 ELSE Len(Head(result)[2]) + CountPairs(Tail(result))

Listed == obs.op = "api_chunks" /\ obs.status = 200

\* C1: once delete_chunk has succeeded for a key, the index holds exactly one
\* row for that key and it is the row delete_chunk committed (is_deleted true),
\* whatever passes, writes and removals follow.
C1_DeletedRowIsFinal ==
    \A r \in deleted : Get(chunks, r.id) = <<r>>

\* C1 witness: a background pass has just called register_chunk for a file
\* that is on disk and whose row was deleted before.
C1_Witness ==
    /\ phase = "scan"
    /\ obs.op = "register_chunk"
    /\ obs.path \in disk
    /\ \E r \in deleted : r.filepath = obs.path

\* C2 (as claimed): delete_chunk answers with the filepath (200) only for a
\* chunk no earlier delete_chunk call has deleted; a later call with the same
\* arguments answers NotFound.
C2_SecondDeleteIsNotFound ==
    [][ (obs'.op = "api_delete_chunk" /\ obs'.status = 200)
        => ~\E r \in deleted : /\ r.discord_id = obs'.user_id
                               /\ r.date = obs'.date
                               /\ r.filename = obs'.filename ]_vars

\* C4: when a whole pass has run over the tree as it is now, every
\* register_chunk call of a following pass leaves the table as it is.
C4_SecondPassAddsNothing ==
    [][ (cleanSince = "pass" /\ cursor' = cursor + 1) => chunks' = chunks ]_vars

\* C4 witness: a second pass over an unchanged tree has called register_chunk.
C4_Witness ==
    /\ phase = "scan"
    /\ cleanSince = "pass"
    /\ obs.op = "register_chunk"
    /\ ~obs.inserted

\* C5: the listing of user u is exactly the (date, filename) of the rows of u
\* that are not deleted and whose file exists, each once.
C5_ListingIsExact ==
    Listed =>
        LET want == {r \in Range(chunks) : /\ r.discord_id = obs.user_id
                                            /\ ~r.is_deleted
                                            /\ r.filepath \in disk}
        IN  /\ Pairs(obs.result) = {<<r.date, r.filename>> : r \in want}
            /\ CountPairs(obs.result) = Cardinality(want)

\* C5 witness: a listing that holds a chunk and leaves out a live row of the
\* same user whose file is gone.
C5_Witness ==
    /\ Listed
    /\ obs.result # <<>>
    /\ \E r \in Range(chunks) : /\ r.discord_id = obs.user_id
                                /\ ~r.is_deleted
                                /\ r.filepath \notin disk

\* C6: in a listing the dates descend and the filenames of a date ascend.
C6_ListingIsOrdered ==
    Listed =>
        /\ \A i \in 1..(Len(obs.result) - 1) :
               StrLess(obs.result[i + 1][1], obs.result[i][1])
        /\ \A i \in 1..Len(obs.result) :
               \A j \in 1..(Len(obs.result[i][2]) - 1) :
                   StrLess(obs.result[i][2][j], obs.result[i][2][j + 1])

\* C6 witness: a listing of two chunks whose rows were registered in the
\* other order.
C6_Witness ==
    /\ Listed
    /\ CountPairs(obs.result) = 2
    /\ \E i, j \in 1..Len(chunks) :
           /\ i < j
           /\ chunks[i].discord_id = obs.user_id
           /\ chunks[j].discord_id = obs.user_id
           /\ RowBefore(chunks[j], chunks[i])

\* C7: no listing holds a chunk that a delete_chunk call has deleted.
C7_DeletedNeverListed ==
    Listed =>
        \A r \in deleted :
            r.discord_id = obs.user_id => <<r.date, r.filename>> \notin Pairs(obs.result)

\* C7 witness: a listing taken while a deleted chunk's file is on disk.
C7_Witness ==
    /\ Listed
    /\ \E r \in deleted : r.discord_id = obs.user_id /\ r.filepath \in disk

\* C10: from the end of startup on, every chunk file that was on disk all
\* through startup has a row; while startup runs no request is handled and no
\* background pass runs.
C10_StartupPassFirst ==
    /\ phase \in {"sleep", "scan"} =>
           \A p \in atStartup :
               (Len(rsplit(p.dir)) = 2 /\ GlobChunk(p.name)) =>
                   Get(chunks, chunk_id(rsplit(p.dir)[2], p.date, p.name)) # <<>>
    /\ phase = "startup" => (delPc = "idle" /\ obs.op \notin HandlerOps)

\* C10 witness: startup is over, the first background pass has not begun, and
\* files that were on disk at startup are indexed.
C10_Witness ==
    /\ phase = "sleep"
    /\ atStartup # {}
    /\ Len(chunks) = Cardinality(atStartup)

\* The row of the index that delete_chunk(user_id, date, filename) looks up
KeyRows(db, user_id, date, filename) == Get(db, chunk_id(user_id, date, filename))

\* C8: delete_chunk goes on to the removal only with a row of the derived key
\* whose discord_id is the caller's; a NotFound answer is given exactly when
\* there is no such row and leaves index and disk as they are; a step of
\* delete_chunk that removes a file or sets is_deleted touches only the file
\* and the rows of a key owned by the caller.
C8_NotFoundTouchesNothing ==
    [][ /\ (delPc = "idle" /\ delPc' = "remove") =>
               LET rows == KeyRows(chunks, delReq'.user_id, delReq'.date, delReq'.filename)
               IN  /\ rows # <<>>
                   /\ rows[1].discord_id = delReq'.user_id
                   /\ delReq'.row = rows[1]
        /\ (obs'.op = "api_delete_chunk" /\ obs'.status = 404) =>
               LET rows == KeyRows(chunks, obs'.user_id, obs'.date, obs'.filename)
               IN  /\ rows = <<>> \/ rows[1].discord_id # obs'.user_id
                   /\ chunks' = chunks
                   /\ disk' = disk
                   /\ delPc' = "idle"
        /\ (delPc = "remove" /\ delPc' = "commit") =>
               /\ delReq.row.discord_id = delReq.user_id
               /\ disk \ disk' \subseteq {delReq.row.filepath}
        /\ (delPc = "commit" /\ delPc' = "idle") =>
               \A i \in 1..Len(chunks) :
                   chunks'[i] # chunks[i] => chunks[i].discord_id = delReq.user_id
      ]_vars

\* C8 witness: user 1 asked to delete a key whose row belongs to user 1:2, the
\* file being on disk, and got NotFound.
C8_Witness ==
    /\ obs.op = "api_delete_chunk"
    /\ obs.status = 404
    /\ obs.session = Some(obs.user_id)
    /\ \E r \in Range(chunks) :
           /\ r.id = chunk_id(obs.user_id, obs.date, obs.filename)
           /\ r.discord_id # obs.user_id
           /\ ~r.is_deleted
           /\ r.filepath \in disk

Rejections == {400, 401, 403}

\* C9: every chunk handler answers 401 without a session user, else 403 when
\* the session id is not the path's user_id, else 400 when date or filename
\* holds ".." or "/"; none of the three has gone on to the index or the disk,
\* and the step leaves index and disk as they are; 404 is never the answer to
\* a mismatched identity.
C9_RejectionOrder ==
    /\ [](obs.op \in HandlerOps =>
            /\ obs.session = None => obs.status = 401
            /\ (obs.session # None /\ obs.session[1] # obs.user_id) => obs.status = 403
            /\ ( /\ obs.session = Some(obs.user_id)
                 /\ BadSegment(obs.date) \/ BadSegment(obs.filename) ) => obs.status = 400
            /\ obs.status \in Rejections => ~obs.looked
            /\ obs.status = 401 => obs.session = None
            /\ obs.status = 403 => (obs.session # None /\ obs.session[1] # obs.user_id)
            /\ obs.status = 400 => (BadSegment(obs.date) \/ BadSegment(obs.filename))
            /\ obs.status = 404 => obs.session = Some(obs.user_id))
    /\ [][ (obs'.op \in HandlerOps /\ obs'.status \in Rejections) =>
               (chunks' = chunks /\ disk' = disk /\ delPc' = delPc /\ deleted' = deleted)
         ]_vars

\* C9 witness: a serve_chunk request of another user for a path with a
\* parent-directory reference, whose row and file exist, was answered 403.
C9_Witness ==
    /\ obs.op = "serve_chunk"
    /\ obs.status = 403
    /\ BadSegment(obs.date)
    /\ obs.session # None
    /\ chunks # <<>>
    /\ disk # {}

\* C3 (as claimed): for a file of size N and a header bytes=<start>-<end> with
\* 0 <= start <= end < N, end left out meaning N - 1, the answer is 206 with
\* Content-Range start-end/N and Content-Length end - start + 1, and the body,
\* once the stream has ended, is the bytes at offsets start..end.
C3_RangeBodyIsExact ==
    \A a \in 0..MaxSize : \A b \in Offsets :
        LET end == IF b = None THEN file_size - 1 ELSE b[1]
        IN  ( /\ range_header = Some(RangeHeader(Some(a), b))
              /\ a <= end
              /\ end < file_size
              /\ spc = "closed" )
            => /\ status = 206
               /\ headers = Some([accept_ranges  |-> "bytes",
                                  content_range  |-> <<a, end, file_size>>,
                                  content_length |-> end - a + 1])
               /\ body = [i \in 1..(end - a + 1) |-> a + i - 1]

\* C11: over every step (register_chunk in a startup or background pass,
\* delete_chunk, get_chunks_for_user, writes to the tree, restarts) each row of
\* the index stays in the index with the same id, user, date, filename and
\* filepath, and its is_deleted flag changes only from false to true and only
\* in the commit of delete_chunk for that row.
C11_RowsAreStable ==
    [][ \/ chunks' = chunks
        \/ /\ Len(chunks') >= Len(chunks)
           /\ \A i \in 1..Len(chunks) :
                  /\ chunks'[i].id = chunks[i].id
                  /\ chunks'[i].discord_id = chunks[i].discord_id
                  /\ chunks'[i].date = chunks[i].date
                  /\ chunks'[i].filename = chunks[i].filename
                  /\ chunks'[i].filepath = chunks[i].filepath
                  /\ chunks'[i].is_deleted # chunks[i].is_deleted =>
                         /\ ~chunks[i].is_deleted
                         /\ chunks'[i].is_deleted
                         /\ delPc = "commit"
                         /\ delReq.row.id = chunks[i].id
      ]_vars

\* C11 witness: delete_chunk has just committed the flag of one row while
\* another row, registered by a pass, is still not deleted.
C11_Witness ==
    /\ obs.op = "api_delete_chunk"
    /\ obs.status = 200
    /\ \E r \in Range(chunks) : r.is_deleted /\ r.filepath = obs.result[1]
    /\ \E r \in Range(chunks) : ~r.is_deleted

\* C12 (as claimed): every register_chunk call, also one that overlaps
\* another caller's call for the same key, returns without an error and leaves
\* exactly one row for its key.
C12_ConcurrentRegisterIsAtomic ==
    \A w \in Callers :
        reg[w].pc \in {"done", "error"} =>
            /\ reg[w].pc = "done"
            /\ Len(Get(chunks, reg[w].id)) = 1

\* The file p is on disk where the scanner looks for chunks
OnDisk(p) == p \in Range(layout) /\ IsCandidate(disk, p)

\* The index holds a row of the file p
Registered(p) == \E r \in Range(chunks) : r.filepath = p

\* A background pass has gone through the whole tree
PassRanThrough == phase = "scan" /\ cursor = Len(layout)

C14_DeleteAlwaysCommits ==
    [][ /\ (delPc = "remove" /\ delPc' # "remove" /\ phase' # "startup") =>
               /\ delPc' = "commit"
               /\ chunks' = chunks
               /\ disk' \in {disk, disk \ {delReq.row.filepath}}
        /\ (delPc = "commit" /\ delPc' # "commit" /\ phase' # "startup") =>
               /\ Get(chunks', delReq.row.id) = <<[delReq.row EXCEPT !.is_deleted = TRUE]>>
               /\ obs'.op = "api_delete_chunk"
               /\ obs'.status = 200
               /\ obs'.result = Some(delReq.row.filepath)
        /\ (delPc # "commit" /\ delPc' = "commit") => delPc = "remove"
        /\ \/ chunks' = chunks
           \/ \A r \in Range(chunks) :
                  (~r.is_deleted /\ \E r2 \in Range(chunks') : r2.id = r.id /\ r2.is_deleted)
                      => (delPc = "commit" /\ delReq.row.id = r.id)
      ]_vars

\* C14 witness: delete_chunk has just returned the filepath and set the flag
\* while the file is still on disk (os.remove raised OSError).
C14_Witness ==
    /\ obs.op = "api_delete_chunk"
    /\ obs.status = 200
    /\ obs.result[1] \in disk
    /\ \E r \in Range(chunks) : r.filepath = obs.result[1] /\ r.is_deleted

\* C15 (as claimed): the startup pass and the background pass call
\* register_chunk only for files of directories whose name, split on its last
\* underscore, gives exactly two parts, both non-empty.
C15_MalformedDirsAreSkipped ==
    obs.op = "register_chunk" =>
        LET parts == rsplit(obs.path.dir)
        IN  /\ Len(parts) = 2
            /\ parts[1] # <<>>
            /\ parts[2] # <<>>

\* C16 (as claimed): a 206 response is produced only for a range with
\* 0 <= start <= end < file_size, its Content-Length is positive, and the
\* body, once streamed, holds exactly Content-Length bytes.
C16_PartialContentIsValid ==
    status = 206 =>
        LET content_range == headers[1].content_range
        IN  /\ 0 <= content_range[1]
            /\ content_range[1] <= content_range[2]
            /\ content_range[2] < content_range[3]
            /\ headers[1].content_length > 0
            /\ spc = "closed" => Len(body) = headers[1].content_length

\* A response whose streaming is over: the generator returned (Complete), was
\* closed by the client's abort (Aborted), or raised
StreamOver == spc \in {"closed", "aborted", "failed"}

\* C17: the file object of iter_file is open exactly while the generator is
\* in its loop; from there the stream goes on or ends as complete (byte count
\* reached, end of file), aborted (generator closed) or failed (read error),
\* each with f closed; once the stream is over nothing more is read and f
\* stays as it is, so no request ends with f open.
C17_HandleReleased ==
    /\ [](f = "open" <=> spc = "read")
    /\ [](StreamOver => f # "open")
    /\ [][ /\ spc = "read" => /\ spc' \in {"read", "closed", "aborted", "failed"}
                              /\ spc' # "read" => f' = "closed"
           /\ StreamOver => UNCHANGED <<spc, f, pos, body>>
         ]_vars

\* C17 witness: the client went away in the middle of a range, after some of
\* its bytes and before the rest, and f is closed.
C17_Witness ==
    /\ spc = "aborted"
    /\ f = "closed"
    /\ status = 206
    /\ body # <<>>
    /\ Len(body) < headers[1].content_length
    /\ pos < file_size

\* C18 (as claimed): a register_chunk call that inserts nothing is a call for
\* a (user_id, date, filename) triple the index already holds a row of, for
\* every triple the scanner derives from directory and file names.
C18_KeyIsUnique ==
    (obs.op = "register_chunk" /\ ~obs.inserted) =>
        \E r \in Range(chunks) :
            /\ r.discord_id = rsplit(obs.path.dir)[2]
            /\ r.date = obs.path.date
            /\ r.filename = obs.path.name

\* C19 (as claimed): no serve_chunk request that was answered 200 or 206 has
\* a body that cannot be read because the file is gone, whatever delete_chunk
\* does beside it: a file that is absent when it is needed gives 404.
C19_AbsentFileIsNotFound ==
    ~(status \in {200, 206} /\ spc = "failed" /\ f = "none")

\* C20 (as claimed): serve_chunk answers 200 or 206 only for a chunk whose
\* index row is not marked is_deleted; once delete_chunk has set the flag,
\* every serve_chunk request for that chunk is answered NotFound.
C20_DeletedChunkIsNotServed ==
    (obs.op = "serve_chunk" /\ obs.status \in {200, 206}) =>
        ~\E r \in Range(chunks) : /\ r.is_deleted
                                  /\ r.discord_id = obs.user_id
                                  /\ r.date = obs.date
                                  /\ r.filename = obs.filename

\* C21 (as claimed): serve_chunk answers NotFound to a logged-in owner only
\* for a (date, filename) that get_chunks_for_user does not list for that
\* user on the same index and tree; whatever is listed is served.
C21_ListedChunkIsServed ==
    (obs.op = "serve_chunk" /\ obs.status = 404) =>
        <<obs.date, obs.filename>> \notin
            Pairs(get_chunks_for_user(chunks, disk, obs.user_id))

====
